---- MODULE Spec2Model ----
(***************************************************************************)
(* A model of nsha (RahulGS02/nsha-tool): the `fix` command of cmd/root.go *)
(* and the repository operations of pkg/git it drives (RunFsck,            *)
(* FindBadCommits, the reference fixes, the tree fix, ReplaceCommit,       *)
(* FilterRepo, CleanupReplaceRefs).                                        *)
(*                                                                         *)
(* A repository is a record                                                *)
(*   commits  : hash -> [tree, parents, meta]   the commit objects stored  *)
(*   trees    : hash -> sequence of entry hashes the tree objects stored   *)
(*   branches : "refs/heads/.." -> hash          loose branch files        *)
(*   tags     : "refs/tags/.."  -> hash          loose tag files           *)
(*   replace  : old hash -> new hash             refs/replace/<old>        *)
(*   head     : [sym, target, hash]              the HEAD file             *)
(*   packed   : sequence of [sha, name]          lines of packed-refs      *)
(* Hashes are numbers; 0 is the null SHA.  Objects are content addressed:  *)
(* storing a content that is already stored returns its hash, any other    *)
(* content gets a hash no object or reference has used.  A commit's meta   *)
(* is [author, msg, when]: its author and committer, its message and its   *)
(* committer time.                                                         *)
(***************************************************************************)
EXTENDS Integers, Sequences, FiniteSets, TLC

\* Number of commit hashes the initial repository of the fix run draws from.
NumFixCommits == 2
\* Number of commit hashes the initial repository of the rewrite run draws from.
NumCommits == 3

\* fsck.go: nullSHA, "0000000000000000000000000000000000000000"
ZeroHash == 0
\* types.go: EmptyTreeHash, "4b825dc642cb6eb9a060e54bf8d69288fbee4904"
EmptyTreeHash == 100

\* The tree hashes of the initial repositories.
GoodTree == EmptyTreeHash + 1
CorruptTree == EmptyTreeHash + 2
MissingTree == EmptyTreeHash + 3
\* Blob hashes, the entries of the initial trees.
BlobA == 2 * EmptyTreeHash + 1
BlobB == 2 * EmptyTreeHash + 2
\* A commit hash the initial repositories reference and never store.
MissingCommit == NumCommits + 1

\* Reference names, in the order go-git walks refs/ (by file name).
BranchNames == <<"refs/heads/dev", "refs/heads/main">>
TagNames == <<"refs/tags/v1">>
ReplaceName == "refs/replace/"
HeadName == "HEAD"

Range(s) == {s[i] : i \in DOMAIN s}
SetMax(S) == CHOOSE x \in S : \A y \in S : y <= x
SetMin(S) == CHOOSE x \in S : \A y \in S : x <= y

RECURSIVE SortedSeq(_)
SortedSeq(S) == IF S = {} THEN <<>> ELSE <<SetMin(S)>> \o SortedSeq(S \ {SetMin(S)})

RECURSIVE Perms(_)
\* All orders of a finite set, as sequences (Go's map iteration order).
Perms(S) == IF S = {} THEN {<<>>}
            ELSE UNION {{<<x>> \o p : p \in Perms(S \ {x})} : x \in S}

--------------------------------------------------------------------------
(* go-git's view of the repository.                                        *)

IsBranch(name) == name \in Range(BranchNames)
IsTag(name) == name \in Range(TagNames)

\* len("refs/heads/dev") and so on: ref.Name().String() is sliced by length.
NameLen(name) ==
  CASE name = HeadName -> 4
    [] name = "refs/heads/dev" -> 14
    [] name = "refs/heads/main" -> 15
    [] name = "refs/tags/v1" -> 12
    [] OTHER -> 53

HashRef(name, old, h) == [name |-> name, old |-> old, sym |-> FALSE, hash |-> h, target |-> ""]
\* A symbolic reference's Hash() is the zero hash.
SymRef(name, target) == [name |-> name, old |-> 0, sym |-> TRUE, hash |-> ZeroHash, target |-> target]

LooseNames(r) == DOMAIN r.branches \cup DOMAIN r.tags

\* Lines of packed-refs that name a reference no loose file and no earlier line names.
PackedVisible(r) ==
  {i \in DOMAIN r.packed :
     /\ r.packed[i].name \notin LooseNames(r)
     /\ \A j \in 1..(i-1) : r.packed[j].name # r.packed[i].name}

\* repo.References(): the loose references of refs/, the packed ones, then HEAD.
References(r) ==
  LET bs == SelectSeq(BranchNames, LAMBDA n : n \in DOMAIN r.branches)
      ts == SelectSeq(TagNames, LAMBDA n : n \in DOMAIN r.tags)
      rs == SortedSeq(DOMAIN r.replace)
      ps == SortedSeq(PackedVisible(r))
  IN  [i \in 1..Len(bs) |-> HashRef(bs[i], 0, r.branches[bs[i]])]
      \o [i \in 1..Len(rs) |-> HashRef(ReplaceName, rs[i], r.replace[rs[i]])]
      \o [i \in 1..Len(ts) |-> HashRef(ts[i], 0, r.tags[ts[i]])]
      \o [i \in 1..Len(ps) |-> HashRef(r.packed[ps[i]].name, 0, r.packed[ps[i]].sha)]
      \o <<IF r.head.sym THEN SymRef(HeadName, r.head.target)
           ELSE HashRef(HeadName, 0, r.head.hash)>>

\* repo.CommitObject(h) succeeds.
HasCommit(r, h) == h \in DOMAIN r.commits
\* repo.TreeObject(t) / commit.Tree() succeeds.
HasTree(r, t) == t \in DOMAIN r.trees

\* repo.Reference(name, true) for a branch or tag name: found, and its hash.
HasRef(r, name) == \E i \in DOMAIN References(r) : References(r)[i].name = name /\ name # ReplaceName
RefHash(r, name) ==
  LET refs == References(r)
      i == CHOOSE i \in DOMAIN refs : refs[i].name = name
  IN  refs[i].hash

\* repo.Head(): HEAD resolved through its symbolic target; fails when the target is absent.
HeadResolves(r) == ~r.head.sym \/ HasRef(r, r.head.target)
HeadHash(r) == IF r.head.sym THEN RefHash(r, r.head.target) ELSE r.head.hash

--------------------------------------------------------------------------
(* Scanner: RunFsck and FindBadCommits (pkg/git/fsck.go).                  *)

Issue(type, object, hash, commit) ==
  [type |-> type, object |-> object, hash |-> hash, commit |-> commit]

\* What `git fsck --full` prints, as RunFsck classifies it: one "null sha1"
\* line per stored tree with a null entry, one "missing" line per object a
\* stored commit links to and the store does not hold (git knows the empty
\* tree without its object).  Both become issues with an empty Object.
NullShaTrees(r) == {t \in DOMAIN r.trees : ZeroHash \in Range(r.trees[t])}
MissingLinks(r) ==
  ({r.commits[h].tree : h \in DOMAIN r.commits} \ (DOMAIN r.trees \cup {EmptyTreeHash}))
  \cup ((UNION {Range(r.commits[h].parents) : h \in DOMAIN r.commits}) \ DOMAIN r.commits)

GitFsckIssues(r) ==
  LET ns == SortedSeq(NullShaTrees(r))
      ms == SortedSeq(MissingLinks(r))
  IN  [i \in 1..Len(ns) |-> Issue("null-sha", "", 0, 0)]
      \o [i \in 1..Len(ms) |-> Issue("missing-commit", "", 0, 0)]

\* The issues RunFsck's refs.ForEach callback appends for one reference.
RefIssues(r, ref) ==
  IF ref.sym THEN <<>>
  ELSE IF ref.hash = ZeroHash THEN <<Issue("null-sha", ref.name, 0, 0)>>
  ELSE IF ~HasCommit(r, ref.hash) THEN <<Issue("missing-commit", "", ref.hash, 0)>>
  ELSE LET c == r.commits[ref.hash]
           zs == SelectSeq(c.parents, LAMBDA p : p = ZeroHash)
       IN  (IF HasTree(r, c.tree) THEN <<>>
            ELSE <<Issue("missing-tree", "", c.tree, ref.hash)>>)
           \o [i \in 1..Len(zs) |-> Issue("broken-parent", "", ref.hash, 0)]

RECURSIVE Flatten(_)
Flatten(ss) == IF ss = <<>> THEN <<>> ELSE Head(ss) \o Flatten(Tail(ss))

RunFsck(r) ==
  LET refs == References(r)
  IN  GitFsckIssues(r) \o Flatten([i \in 1..Len(refs) |-> RefIssues(r, refs[i])])

\* VerifyRepository(repoPath) returns nil.
VerifyRepository(r) == RunFsck(r) = <<>>

\* The commit an issue makes FindBadCommits look up: issue.Commit, else
\* issue.Object; a reference name or an empty Object decodes to no commit.
IssueCommit(i) == IF i.commit # 0 THEN i.commit ELSE i.hash

BadCommit(r, h) ==
  LET c == r.commits[h]
  IN  [Hash |-> h,
       TreeHash |-> c.tree,
       Message |-> c.meta.msg,
       IsRoot |-> Len(c.parents) = 0,
       \* 0 stands for the empty string
       ParentHash |-> IF Len(c.parents) > 0 /\ c.parents[1] # ZeroHash THEN c.parents[1] ELSE 0]

\* The keys of badCommitsMap.
BadCommitHashes(r) ==
  LET is == RunFsck(r)
  IN  {IssueCommit(is[i]) : i \in {j \in DOMAIN is :
          /\ is[j].type \in {"missing-tree", "broken-parent", "null-sha"}
          /\ IssueCommit(is[j]) # ZeroHash
          /\ HasCommit(r, IssueCommit(is[j]))}}

\* FindBadCommits returns the map's values in map-iteration order: any order.
FindBadCommits(r) ==
  {[i \in DOMAIN p |-> BadCommit(r, p[i])] : p \in Perms(BadCommitHashes(r))}

\* BadCommit.String() slices ParentHash[:8]: a run-time failure on an empty ParentHash.
BadCommitStringFails(bc) == ~bc.IsRoot /\ bc.ParentHash = 0

--------------------------------------------------------------------------
(* Reference fixes (pkg/git/fsck.go).  Each returns the repository it      *)
(* leaves and the count it reports.                                        *)

Result(r, n) == [repo |-> r, count |-> n]

\* os.WriteFile(.git/<refName>, hash): a loose reference file.
WriteLoose(r, name, h) ==
  IF IsBranch(name) THEN [r EXCEPT !.branches = (name :> h) @@ @]
  ELSE IF IsTag(name) THEN [r EXCEPT !.tags = (name :> h) @@ @]
  ELSE r
\* os.Remove(.git/<refName>): removes the loose file only; a packed line stays.
RemoveLoose(r, name) ==
  [r EXCEPT !.branches = [n \in DOMAIN @ \ {name} |-> @[n]],
            !.tags = [n \in DOMAIN @ \ {name} |-> @[n]]]

RECURSIVE PackedClean(_, _)
\* The lines CleanupPackedRefs and FixNullSHAReferences keep: no null SHA, no
\* second line for a name already seen.
PackedClean(lines, seen) ==
  IF lines = <<>> THEN <<>>
  ELSE LET l == Head(lines)
       IN  IF l.sha = ZeroHash THEN PackedClean(Tail(lines), seen)
           ELSE IF l.name \in seen THEN PackedClean(Tail(lines), seen)
           ELSE <<l>> \o PackedClean(Tail(lines), seen \cup {l.name})

CleanupPackedRefs(r) == [r EXCEPT !.packed = PackedClean(@, {})]

\* findValidReference: refs/heads/main (master and develop are no names of
\* the model) if its hash is not null, else the first branch with a non-null hash.
HasValidReference(r) ==
  \E i \in DOMAIN References(r) : IsBranch(References(r)[i].name) /\ References(r)[i].hash # ZeroHash
findValidReference(r) ==
  LET refs == References(r)
  IN  IF HasRef(r, "refs/heads/main") /\ RefHash(r, "refs/heads/main") # ZeroHash
      THEN "refs/heads/main"
      ELSE refs[SetMin({i \in DOMAIN refs : IsBranch(refs[i].name) /\ refs[i].hash # ZeroHash})].name

\* findMostRecentValidCommit: over the branches whose hash is not null and
\* loads as a commit, the first one no later one is strictly newer than...
ValidBranchRefs(r) ==
  LET refs == References(r)
  IN  {i \in DOMAIN refs : IsBranch(refs[i].name) /\ refs[i].hash # ZeroHash /\ HasCommit(r, refs[i].hash)}
HasValidCommit(r) == ValidBranchRefs(r) # {}
RECURSIVE MostRecent(_, _, _)
MostRecent(r, hs, best) ==
  IF hs = <<>> THEN best
  ELSE IF r.commits[Head(hs)].meta.when > r.commits[best].meta.when
       THEN MostRecent(r, Tail(hs), Head(hs))
       ELSE MostRecent(r, Tail(hs), best)
findMostRecentValidCommit(r) ==
  LET refs == References(r)
      is == SortedSeq(ValidBranchRefs(r))
      hs == [k \in 1..Len(is) |-> refs[is[k]].hash]
  IN  MostRecent(r, Tail(hs), Head(hs))

\* HEAD := "ref: <name>"
SetHeadSym(r, name) == [r EXCEPT !.head = [sym |-> TRUE, target |-> name, hash |-> ZeroHash]]
\* HEAD := "<hash>"
SetHeadHash(r, h) == [r EXCEPT !.head = [sym |-> FALSE, target |-> "", hash |-> h]]

\* FixNullSHAReferences, step 1: HEAD.
FixNullHead(r, dryRun) ==
  IF HeadResolves(r) /\ HeadHash(r) = ZeroHash
  THEN IF dryRun THEN Result(r, 1)
       ELSE IF HasValidReference(r) THEN Result(SetHeadSym(r, findValidReference(r)), 1)
       ELSE Result(r, 0)
  ELSE Result(r, 0)

RECURSIVE FixNullRefsLoop(_, _, _, _)
\* FixNullSHAReferences, step 2: refs.ForEach over the references read before the loop.
FixNullRefsLoop(r, refs, n, dryRun) ==
  IF refs = <<>> THEN Result(r, n)
  ELSE LET ref == Head(refs)
       IN  IF ref.hash # ZeroHash THEN FixNullRefsLoop(r, Tail(refs), n, dryRun)
           ELSE IF dryRun THEN FixNullRefsLoop(r, Tail(refs), n + 1, dryRun)
           ELSE IF IsBranch(ref.name) /\ HasValidCommit(r)
                THEN FixNullRefsLoop(WriteLoose(r, ref.name, findMostRecentValidCommit(r)),
                                     Tail(refs), n + 1, dryRun)
                ELSE FixNullRefsLoop(r, Tail(refs), n, dryRun)

\* FixNullSHAReferences, step 3: packed-refs.
NullPackedLines(r) == Cardinality({i \in DOMAIN r.packed : r.packed[i].sha = ZeroHash})
FixNullPacked(r, dryRun) ==
  Result(IF dryRun THEN r ELSE CleanupPackedRefs(r), NullPackedLines(r))

FixNullSHAReferences(r, dryRun) ==
  LET a == FixNullHead(r, dryRun)
      b == FixNullRefsLoop(a.repo, References(a.repo), a.count, dryRun)
      c == FixNullPacked(b.repo, dryRun)
  IN  Result(c.repo, b.count + c.count)

RECURSIVE FixTagsLoop(_, _, _, _)
FixTagsLoop(r, names, n, dryRun) ==
  IF names = <<>> THEN Result(r, n)
  ELSE IF dryRun THEN FixTagsLoop(r, Tail(names), n + 1, dryRun)
  ELSE IF HasValidCommit(r)
       THEN FixTagsLoop(WriteLoose(r, Head(names), findMostRecentValidCommit(r)), Tail(names), n + 1, dryRun)
       ELSE FixTagsLoop(RemoveLoose(r, Head(names)), Tail(names), n + 1, dryRun)

FixNullSHATags(r, dryRun) ==
  LET refs == References(r)
      fix == SelectSeq(refs, LAMBDA ref : IsTag(ref.name) /\ ref.hash = ZeroHash)
  IN  FixTagsLoop(r, [i \in 1..Len(fix) |-> fix[i].name], 0, dryRun)

RECURSIVE FixMissingLoop(_, _, _, _)
FixMissingLoop(r, names, n, dryRun) ==
  IF names = <<>> THEN Result(r, n)
  ELSE IF dryRun THEN FixMissingLoop(r, Tail(names), n + 1, dryRun)
  ELSE IF Head(names) = HeadName
       THEN IF HasValidReference(r)
            THEN FixMissingLoop(SetHeadSym(r, findValidReference(r)), Tail(names), n + 1, dryRun)
            ELSE IF HasValidCommit(r)
                 THEN FixMissingLoop(SetHeadHash(r, findMostRecentValidCommit(r)), Tail(names), n + 1, dryRun)
                 ELSE FixMissingLoop(r, Tail(names), n, dryRun)
  ELSE IF HasValidCommit(r)
       THEN FixMissingLoop(WriteLoose(r, Head(names), findMostRecentValidCommit(r)), Tail(names), n + 1, dryRun)
       ELSE FixMissingLoop(RemoveLoose(r, Head(names)), Tail(names), n + 1, dryRun)

\* FixMissingCommits: every reference whose Hash() loads no commit, a symbolic
\* HEAD (whose Hash() is the zero hash) included.
FixMissingCommits(r, dryRun) ==
  LET refs == References(r)
      fix == SelectSeq(refs, LAMBDA ref : ~HasCommit(r, ref.hash))
  IN  FixMissingLoop(r, [i \in 1..Len(fix) |-> fix[i].name], 0, dryRun)

--------------------------------------------------------------------------
(* The object store.                                                       *)

\* Hash of a tree content: the stored tree with these entries, the empty tree's
\* well-known hash, else a hash no tree has.
TreeHashOf(r, entries) ==
  IF \E t \in DOMAIN r.trees : r.trees[t] = entries
  THEN CHOOSE t \in DOMAIN r.trees : r.trees[t] = entries
  ELSE IF entries = <<>> THEN EmptyTreeHash
  ELSE SetMax(DOMAIN r.trees \cup {MissingTree}) + 1
StoreTree(r, entries) == [r EXCEPT !.trees = (TreeHashOf(r, entries) :> entries) @@ @]

\* Hash of a commit content: the stored commit with this content, else a hash
\* no commit has.
CommitHashOf(r, c) ==
  IF \E h \in DOMAIN r.commits : r.commits[h] = c
  THEN CHOOSE h \in DOMAIN r.commits : r.commits[h] = c
  ELSE SetMax(DOMAIN r.commits \cup {MissingCommit}) + 1
\* Storer.SetEncodedObject / git hash-object -w
StoreCommit(r, c) == [r EXCEPT !.commits = (CommitHashOf(r, c) :> c) @@ @]

RECURSIVE walkCommits(_, _, _)
RECURSIVE WalkAll(_, _, _)
\* walkCommits marks the hash visited before it loads the commit, so hashes
\* that load nothing are in the set too.
walkCommits(r, h, visited) ==
  IF h \in visited THEN visited
  ELSE IF ~HasCommit(r, h) THEN visited \cup {h}
  ELSE WalkAll(r, r.commits[h].parents, visited \cup {h})
WalkAll(r, hs, visited) ==
  IF hs = <<>> THEN visited
  ELSE WalkAll(r, Tail(hs), walkCommits(r, Head(hs), visited))

--------------------------------------------------------------------------
(* Tree fix (pkg/git/fsck.go): FixTreeCorruptionWithGitCommands and        *)
(* updateCommitsWithNewTree, with the git commands they run.               *)

\* `git for-each-ref refs/heads/ refs/tags/`: the branch and tag names; the
\* command fails on a reference to an object the store does not hold.
BranchAndTagRefs(r) ==
  SelectSeq(References(r), LAMBDA ref : IsBranch(ref.name) \/ IsTag(ref.name))
ForEachRefFails(r) ==
  \E i \in DOMAIN BranchAndTagRefs(r) :
     /\ BranchAndTagRefs(r)[i].hash # ZeroHash
     /\ ~HasCommit(r, BranchAndTagRefs(r)[i].hash)
\* `git log <ref> --format="%H %T"`: the history of the reference, or a
\* failure when a commit of it cannot be read.
GitLogFails(r, h) == \E c \in walkCommits(r, h, {}) : ~HasCommit(r, c)
GitLog(r, h) == IF GitLogFails(r, h) THEN {} ELSE walkCommits(r, h, {})

\* commitsToFix of updateCommitsWithNewTree.
CommitsUsingTree(r, oldTree) ==
  IF ForEachRefFails(r) THEN {}
  ELSE {c \in UNION {GitLog(r, BranchAndTagRefs(r)[i].hash) : i \in DOMAIN BranchAndTagRefs(r)} :
          r.commits[c].tree = oldTree}

RECURSIVE ReplaceTreeLoop(_, _, _)
\* For each commit: cat-file, swap the tree line, hash-object -w, git replace
\* (which refuses a commit that already has a replace reference).
ReplaceTreeLoop(r, cs, newTree) ==
  IF cs = <<>> THEN r
  ELSE LET c == Head(cs)
           nc == [r.commits[c] EXCEPT !.tree = newTree]
           r1 == StoreCommit(r, nc)
       IN  IF c \in DOMAIN r.replace THEN ReplaceTreeLoop(r1, Tail(cs), newTree)
           ELSE ReplaceTreeLoop([r1 EXCEPT !.replace = (c :> CommitHashOf(r, nc)) @@ @],
                                Tail(cs), newTree)

updateCommitsWithNewTree(r, oldTree, newTree) ==
  ReplaceTreeLoop(r, SortedSeq(CommitsUsingTree(r, oldTree)), newTree)

\* A sanitizer that stops at the first null entry and drops what follows it.
EntriesBeforeNull(entries) ==
  IF \E i \in DOMAIN entries : entries[i] = ZeroHash
  THEN SubSeq(entries, 1, SetMin({i \in DOMAIN entries : entries[i] = ZeroHash}) - 1)
  ELSE entries

\* The entries a tree keeps: those that are not the null SHA.
ValidEntries(entries) == SelectSeq(entries, LAMBDA e : e # ZeroHash)

RECURSIVE FixTreesLoop(_, _, _, _)
FixTreesLoop(r, ts, n, dryRun) ==
  IF ts = <<>> THEN Result(r, n)
  ELSE IF dryRun THEN FixTreesLoop(r, Tail(ts), n + 1, dryRun)
  ELSE LET valid == ValidEntries(r.trees[Head(ts)])
           \* git mktree, or the empty tree's hash with no object written
           r1 == IF valid = <<>> THEN r ELSE StoreTree(r, valid)
           newTree == IF valid = <<>> THEN EmptyTreeHash ELSE TreeHashOf(r, valid)
       IN  FixTreesLoop(updateCommitsWithNewTree(r1, Head(ts), newTree), Tail(ts), n + 1, dryRun)

FixTreeCorruptionWithGitCommands(r, dryRun) ==
  FixTreesLoop(r, SortedSeq(NullShaTrees(r)), 0, dryRun)

--------------------------------------------------------------------------
(* Planner (pkg/git/replace.go).                                           *)

CreateEmptyTree(r) == [r EXCEPT !.trees = (EmptyTreeHash :> <<>>) @@ @]

\* Storer.SetReference(refs/replace/<old> -> new)
SetReplace(r, old, new) == [r EXCEPT !.replace = (old :> new) @@ @]

\* Author 0 is the tool's own signature, "NSHA Tool"; now is time.Now().
createMinimalReplacement(r, bc, now) ==
  LET r1 == IF HasTree(r, EmptyTreeHash) THEN r ELSE CreateEmptyTree(r)
      nc == [tree |-> EmptyTreeHash,
             parents |-> IF bc.ParentHash # 0 THEN <<bc.ParentHash>> ELSE <<>>,
             meta |-> [author |-> 0, msg |-> bc.Message, when |-> now]]
  IN  SetReplace(StoreCommit(r1, nc), bc.Hash, CommitHashOf(r1, nc))

\* The parents ReplaceCommit gives the replacement: the bad commit's first
\* parent when it is not null and loads, none otherwise.
ReplacementParents(r, bc) ==
  IF bc.ParentHash # 0 /\ bc.ParentHash # ZeroHash /\ HasCommit(r, bc.ParentHash)
  THEN <<bc.ParentHash>> ELSE <<>>

\* A planner that reads its objects through the replace references, as the
\* git command line does: a parent already planned is seen as its replacement.
ReplaceCommitThroughReplaceRefs(r, bc, now) ==
  LET r1 == IF HasTree(r, EmptyTreeHash) THEN r ELSE CreateEmptyTree(r)
      seen == IF bc.Hash \in DOMAIN r.replace THEN r.replace[bc.Hash] ELSE bc.Hash
      ps == ReplacementParents(r1, bc)
      nc == [tree |-> EmptyTreeHash,
             parents |-> [i \in DOMAIN ps |->
                            IF ps[i] \in DOMAIN r.replace THEN r.replace[ps[i]] ELSE ps[i]],
             meta |-> r.commits[seen].meta]
  IN  SetReplace(StoreCommit(r1, nc), bc.Hash, CommitHashOf(r1, nc))

ReplaceCommit(r, bc, now) ==
  IF ~HasCommit(r, bc.Hash) THEN createMinimalReplacement(r, bc, now)
  ELSE LET r1 == IF HasTree(r, EmptyTreeHash) THEN r ELSE CreateEmptyTree(r)
           nc == [tree |-> EmptyTreeHash,
                  parents |-> ReplacementParents(r1, bc),
                  meta |-> r.commits[bc.Hash].meta]
       IN  SetReplace(StoreCommit(r1, nc), bc.Hash, CommitHashOf(r1, nc))

RECURSIVE ReplaceAll(_, _, _)
\* The loop of the fix command over the bad commits.
ReplaceAll(r, bcs, now) ==
  IF bcs = <<>> THEN r ELSE ReplaceAll(ReplaceCommit(r, Head(bcs), now), Tail(bcs), now)

\* CleanupReplaceRefs slices every reference name [:13] while it collects the
\* replace references: a run-time failure on a name shorter than 13 bytes,
\* before anything is removed.
CleanupReplaceRefsFails(r) ==
  \E i \in DOMAIN References(r) : NameLen(References(r)[i].name) < 13
CleanupReplaceRefs(r) == [r EXCEPT !.replace = <<>>]

--------------------------------------------------------------------------
(* Rewrite engine (pkg/git/filter.go).                                     *)

getReplaceRefs(r) == r.replace

\* The comparator getAllCommitsTopological hands to sort.Slice.
Less(r, a, b) ==
  IF HasCommit(r, a) /\ HasCommit(r, b)
  THEN IF a \in Range(r.commits[b].parents) THEN TRUE
       ELSE IF b \in Range(r.commits[a].parents) THEN FALSE
       ELSE a < b
  ELSE a < b

Swap(s, i, j) == [s EXCEPT ![i] = s[j], ![j] = s[i]]

RECURSIVE Sink(_, _, _)
RECURSIVE InsertionSort(_, _, _)
\* sort.Slice on a slice of at most 12 elements is an insertion sort.
Sink(r, s, j) ==
  IF j > 1 /\ Less(r, s[j], s[j-1]) THEN Sink(r, Swap(s, j, j-1), j - 1) ELSE s
InsertionSort(r, s, i) ==
  IF i > Len(s) THEN s ELSE InsertionSort(r, Sink(r, s, i), i + 1)

\* commitSet: everything walkCommits visits from the branches and tags.
CommitSet(r) ==
  LET starts == BranchAndTagRefs(r)
  IN  WalkAll(r, [i \in 1..Len(starts) |-> starts[i].hash], {})

\* The orders getAllCommitsTopological can return: the sort applied to any
\* iteration order of the commitSet map.
getAllCommitsTopological(r) ==
  {InsertionSort(r, p, 2) : p \in Perms(CommitSet(r))}

\* Parents that keeps the parents the map changes and drops the others.
ChangedParentsOnly(c, commitMap) ==
  LET ps == SelectSeq(c.parents, LAMBDA p : p \in DOMAIN commitMap)
  IN  [i \in DOMAIN ps |-> commitMap[ps[i]]]

NewParents(c, commitMap) ==
  [i \in DOMAIN c.parents |->
     IF c.parents[i] \in DOMAIN commitMap THEN commitMap[c.parents[i]] ELSE c.parents[i]]

\* A rewrite engine that re-encodes every commit it loads.
AlwaysRewrite(c, commitMap) == TRUE

NeedsRewrite(c, commitMap) == \E i \in DOMAIN c.parents : c.parents[i] \in DOMAIN commitMap

\* rewriteCommit encodes and stores a new commit for oldHash.
Reencodes(r, oldHash, commitMap) ==
  /\ oldHash \notin DOMAIN commitMap
  /\ HasCommit(r, oldHash)
  /\ NeedsRewrite(r.commits[oldHash], commitMap)

RewrittenCommit(r, oldHash, commitMap) ==
  [r.commits[oldHash] EXCEPT !.parents = NewParents(r.commits[oldHash], commitMap)]

\* A rewriteCommit that, besides storing the new commit, at once moves the
\* branches and tags that point at the old one.
rewriteAndRepoint(r, oldHash, commitMap) ==
  IF oldHash \in DOMAIN commitMap THEN [repo |-> r, hash |-> commitMap[oldHash]]
  ELSE IF ~Reencodes(r, oldHash, commitMap) THEN [repo |-> r, hash |-> oldHash]
  ELSE LET nc == RewrittenCommit(r, oldHash, commitMap)
           r1 == StoreCommit(r, nc)
       IN  [repo |-> [r1 EXCEPT
                        !.branches = [n \in DOMAIN @ |-> IF @[n] = oldHash THEN CommitHashOf(r, nc) ELSE @[n]],
                        !.tags = [n \in DOMAIN @ |-> IF @[n] = oldHash THEN CommitHashOf(r, nc) ELSE @[n]]],
            hash |-> CommitHashOf(r, nc)]

\* rewriteCommit: the repository it leaves and the hash it returns.
rewriteCommit(r, oldHash, commitMap) ==
  IF oldHash \in DOMAIN commitMap THEN [repo |-> r, hash |-> commitMap[oldHash]]
  ELSE IF ~Reencodes(r, oldHash, commitMap) THEN [repo |-> r, hash |-> oldHash]
  ELSE [repo |-> StoreCommit(r, RewrittenCommit(r, oldHash, commitMap)),
        hash |-> CommitHashOf(r, RewrittenCommit(r, oldHash, commitMap))]

RECURSIVE SetRefs(_, _, _)
SetRefs(r, refs, commitMap) ==
  IF refs = <<>> THEN r
  ELSE IF Head(refs).hash \in DOMAIN commitMap
       THEN SetRefs(WriteLoose(r, Head(refs).name, commitMap[Head(refs).hash]), Tail(refs), commitMap)
       ELSE SetRefs(r, Tail(refs), commitMap)

\* refsToUpdate of updateAllReferences: the branches and tags it has collected.
refsToUpdate(r, commitMap) ==
  SelectSeq(BranchAndTagRefs(r), LAMBDA ref : ref.hash \in DOMAIN commitMap)

\* A reference update that moves the branches and leaves the tags.
updateBranchesOnly(r, commitMap) ==
  SetRefs(r, SelectSeq(References(r), LAMBDA ref : IsBranch(ref.name)), commitMap)

\* updateAllReferences: every branch and tag whose hash is a key of the map.
updateAllReferences(r, commitMap) == SetRefs(r, BranchAndTagRefs(r), commitMap)

--------------------------------------------------------------------------
(* Garbage collection and the dry-run analysis.                            *)

\* Every hash a reference holds.
RefHashes(r) ==
  {References(r)[i].hash : i \in {j \in DOMAIN References(r) : ~References(r)[j].sym}}
    \cup {r.packed[i].sha : i \in DOMAIN r.packed}
\* The commits reachable from the references.
Reachable(r) == WalkAll(r, SortedSeq(RefHashes(r)), {})
\* git prune / git gc fail on a repository whose references or links are broken.
PruneFails(r) ==
  \/ \E h \in Reachable(r) : ~HasCommit(r, h)
  \/ \E h \in Reachable(r) \cap DOMAIN r.commits :
        r.commits[h].tree \notin DOMAIN r.trees \cup {EmptyTreeHash}
Prune(r) ==
  LET keep == Reachable(r)
      keepTrees == {r.commits[h].tree : h \in keep}
  IN  [r EXCEPT !.commits = [h \in DOMAIN @ \cap keep |-> @[h]],
                !.trees = [t \in DOMAIN @ \cap keepTrees |-> @[t]]]

\* RunGarbageCollection: packed-refs cleanup, then prune and gc; pruned says
\* whether they removed the unreachable objects (reflogs may still hold them).
RunGarbageCollection(r, pruned) ==
  LET r1 == CleanupPackedRefs(r)
  IN  IF pruned /\ ~PruneFails(r1) THEN Prune(r1) ELSE r1

\* AnalyzeAndPopulate slices validCommit[:8] for every reference whose Hash()
\* loads no commit: a run-time failure when there is no valid commit.
AnalyzeFails(r) ==
  /\ ~HasValidCommit(r)
  /\ \E i \in DOMAIN References(r) : ~HasCommit(r, References(r)[i].hash)

--------------------------------------------------------------------------
(* The runs.                                                               *)

VARIABLES
  repo,           \* the repository
  repo0,          \* the repository as the run found it
  pc,             \* where the run is
  dryRun,         \* --dry-run
  yes,            \* --yes
  cleared,        \* the backup succeeded, or the operator accepted to go on without one
  confirm,        \* the answer to "Do you want to continue?": "none" before it is asked
  totalFixCount,
  badCommits,     \* what FindBadCommits returned
  commitMap,      \* FilterRepo's commitMap
  todo,           \* the commits FilterRepo has still to rewrite
  encoded         \* the commits rewriteCommit has encoded a new commit for

vars == <<repo, repo0, pc, dryRun, yes, cleared, confirm, totalFixCount,
          badCommits, commitMap, todo, encoded>>

Absent == 0 - 1
\* time.Now(): later than every commit of the initial repositories.
Now == NumCommits + 1

Commit(h, tree, parents) ==
  [tree |-> tree, parents |-> parents, meta |-> [author |-> h, msg |-> h, when |-> h]]

\* A map from the names of opts that are not Absent to their hashes.
RefMap(names, opts) ==
  [n \in {names[i] : i \in {j \in DOMAIN names : opts[j] # Absent}} |->
     opts[CHOOSE i \in DOMAIN names : names[i] = n]]

\* The trees the store holds: those the stored commits use, the missing one excepted.
TreeStore(commits, corrupt) ==
  [t \in {commits[h].tree : h \in DOMAIN commits} \cap {GoodTree, CorruptTree} |->
     IF t = GoodTree THEN <<BlobA>> ELSE corrupt]

\* The commits of the fix run's repositories: a root commit 1 with a good, a
\* corrupted or a missing tree, and above it commits whose parent is the commit
\* below or the null SHA; any of them may be absent from the store.
FixCommitOptions(h) ==
  IF h = 1
  THEN {Commit(1, t, <<>>) : t \in {GoodTree, CorruptTree, MissingTree}}
  ELSE {Commit(h, GoodTree, <<p>>) : p \in {h - 1, ZeroHash}}

FixStores ==
  {[h \in stored |-> f[h]] :
     f \in {g \in [1..NumFixCommits -> UNION {FixCommitOptions(h) : h \in 1..NumFixCommits}] :
              \A h \in 1..NumFixCommits : g[h] \in FixCommitOptions(h)},
     stored \in SUBSET (1..NumFixCommits)}

CorruptContents == {<<BlobA, ZeroHash, BlobB>>, <<ZeroHash>>}

HeadOptions ==
  {[sym |-> TRUE, target |-> "refs/heads/main", hash |-> ZeroHash],
   [sym |-> TRUE, target |-> "refs/heads/dev", hash |-> ZeroHash],
   [sym |-> FALSE, target |-> "", hash |-> ZeroHash]}

PackedOptions ==
  {<<>>,
   <<[sha |-> ZeroHash, name |-> "refs/heads/main"]>>,
   <<[sha |-> 1, name |-> "refs/heads/dev"], [sha |-> 2, name |-> "refs/heads/dev"]>>}

FixRepos ==
  {[commits |-> c, trees |-> TreeStore(c, t),
    branches |-> RefMap(BranchNames, <<d, m>>), tags |-> RefMap(TagNames, <<v>>),
    replace |-> <<>>, head |-> hd, packed |-> pk] :
     c \in FixStores, t \in CorruptContents,
     d \in {Absent} \cup 1..NumFixCommits,
     m \in {Absent, ZeroHash, MissingCommit} \cup 1..NumFixCommits,
     v \in {Absent, ZeroHash, 1},
     hd \in HeadOptions, pk \in PackedOptions}

Init ==
  /\ repo \in FixRepos
  /\ repo0 = repo
  /\ pc = "start"
  /\ dryRun \in BOOLEAN
  /\ yes \in BOOLEAN
  /\ cleared = FALSE
  /\ confirm = "none"
  /\ totalFixCount = 0
  /\ badCommits = <<>>
  /\ commitMap = <<>>
  /\ todo = <<>>
  /\ encoded = {}

--------------------------------------------------------------------------
(* The fix command (cmd/root.go, fixCmd.RunE), step by step.               *)

Goto(l) == pc' = l

\* A fix command that goes on to the backup and the fixes whatever the scan found.
DiagnoseAndGoOn ==
  /\ pc = "start"
  /\ Goto(IF dryRun THEN "analyze" ELSE "backup")
  /\ UNCHANGED <<repo, repo0, dryRun, yes, cleared, confirm, totalFixCount, badCommits,
                 commitMap, todo, encoded>>

\* Step 1: the scan; a repository without issues ends the run.
Diagnose ==
  /\ pc = "start"
  /\ Goto(IF RunFsck(repo) = <<>> THEN "healthy" ELSE IF dryRun THEN "analyze" ELSE "backup")
  /\ UNCHANGED <<repo, repo0, dryRun, yes, cleared, confirm, totalFixCount, badCommits,
                 commitMap, todo, encoded>>

DryRunAnalyze ==
  /\ pc = "analyze"
  /\ Goto(IF AnalyzeFails(repo) THEN "crashed" ELSE "fix_hashpath")
  /\ UNCHANGED <<repo, repo0, dryRun, yes, cleared, confirm, totalFixCount, badCommits,
                 commitMap, todo, encoded>>

\* logger.New fails: log is nil and log.GetLogDir() dereferences it.
LoggerFails ==
  /\ pc = "backup"
  /\ Goto("crashed")
  /\ UNCHANGED <<repo, repo0, dryRun, yes, cleared, confirm, totalFixCount, badCommits,
                 commitMap, todo, encoded>>

\* backup.CreateBackup returns a backup; its verification does not stop the run.
BackupOk ==
  /\ pc = "backup"
  /\ cleared' = TRUE
  /\ Goto("cleanup_packed")
  /\ UNCHANGED <<repo, repo0, dryRun, yes, confirm, totalFixCount, badCommits,
                 commitMap, todo, encoded>>

Responses == {"yes", "y", "no", ""}
Accepts(response) == response = "yes" \/ response = "y"
\* A run that goes on whatever the operator answers.
AlwaysContinues(response) == TRUE

\* "Do you want to continue without backup?"
ContinuesWithoutBackup(response) == Accepts(response)

\* backup.CreateBackup fails and the operator is asked.
BackupFails ==
  /\ pc = "backup"
  /\ \E response \in Responses :
       /\ cleared' = Accepts(response)
       /\ Goto(IF ContinuesWithoutBackup(response) THEN "cleanup_packed" ELSE "cancelled")
  /\ UNCHANGED <<repo, repo0, dryRun, yes, confirm, totalFixCount, badCommits,
                 commitMap, todo, encoded>>

CleanupPacked ==
  /\ pc = "cleanup_packed"
  /\ repo' = CleanupPackedRefs(repo)
  /\ Goto("fix_hashpath")
  /\ UNCHANGED <<repo0, dryRun, yes, cleared, confirm, totalFixCount, badCommits,
                 commitMap, todo, encoded>>

\* FixHashPathMismatch: the repositories of the model hold no object under
\* objects/00/, so it finds nothing to move and counts nothing.
FixHashPath ==
  /\ pc = "fix_hashpath"
  /\ Goto("fix_refs")
  /\ UNCHANGED <<repo, repo0, dryRun, yes, cleared, confirm, totalFixCount, badCommits,
                 commitMap, todo, encoded>>

\* 2. null SHA references
FixRefs ==
  /\ pc = "fix_refs"
  /\ repo' = FixNullSHAReferences(repo, dryRun).repo
  /\ totalFixCount' = totalFixCount + FixNullSHAReferences(repo, dryRun).count
  /\ Goto("fix_tags")
  /\ UNCHANGED <<repo0, dryRun, yes, cleared, confirm, badCommits, commitMap, todo, encoded>>

\* 3. null SHA tags
FixTags ==
  /\ pc = "fix_tags"
  /\ repo' = FixNullSHATags(repo, dryRun).repo
  /\ totalFixCount' = totalFixCount + FixNullSHATags(repo, dryRun).count
  /\ Goto("fix_missing")
  /\ UNCHANGED <<repo0, dryRun, yes, cleared, confirm, badCommits, commitMap, todo, encoded>>

\* 4. references to missing commits
FixMissing ==
  /\ pc = "fix_missing"
  /\ repo' = FixMissingCommits(repo, dryRun).repo
  /\ totalFixCount' = totalFixCount + FixMissingCommits(repo, dryRun).count
  /\ Goto("fix_trees")
  /\ UNCHANGED <<repo0, dryRun, yes, cleared, confirm, badCommits, commitMap, todo, encoded>>

\* 5. tree objects with null SHA entries
FixTrees ==
  /\ pc = "fix_trees"
  /\ repo' = FixTreeCorruptionWithGitCommands(repo, dryRun).repo
  /\ totalFixCount' = totalFixCount + FixTreeCorruptionWithGitCommands(repo, dryRun).count
  /\ Goto("find_bad")
  /\ UNCHANGED <<repo0, dryRun, yes, cleared, confirm, badCommits, commitMap, todo, encoded>>

\* FindBadCommits, and the branch on "only references were fixed".
FindBad ==
  /\ pc = "find_bad"
  /\ \E bcs \in FindBadCommits(repo) :
       /\ badCommits' = bcs
       /\ Goto(IF Len(bcs) = 0 /\ totalFixCount > 0
               THEN (IF dryRun THEN "verify" ELSE "gc")
               ELSE "show_bad")
  /\ UNCHANGED <<repo, repo0, dryRun, yes, cleared, confirm, totalFixCount,
                 commitMap, todo, encoded>>

GarbageCollect ==
  /\ pc = "gc"
  /\ \E pruned \in BOOLEAN : repo' = RunGarbageCollection(repo, pruned)
  /\ Goto("verify")
  /\ UNCHANGED <<repo0, dryRun, yes, cleared, confirm, totalFixCount, badCommits,
                 commitMap, todo, encoded>>

\* The references-only run ends with VerifyRepository and its report.
VerifyRefsOnly ==
  /\ pc = "verify"
  /\ Goto("done")
  /\ UNCHANGED <<repo, repo0, dryRun, yes, cleared, confirm, totalFixCount, badCommits,
                 commitMap, todo, encoded>>

\* "Found n bad commit(s)": commit.String() for each of them.
ShowBadCommits ==
  /\ pc = "show_bad"
  /\ Goto(IF \E i \in DOMAIN badCommits : BadCommitStringFails(badCommits[i]) THEN "crashed"
          ELSE IF ~yes /\ ~dryRun THEN "confirm"
          ELSE "empty_tree")
  /\ UNCHANGED <<repo, repo0, dryRun, yes, cleared, confirm, totalFixCount, badCommits,
                 commitMap, todo, encoded>>

\* "This operation will rewrite Git history! Do you want to continue?"
Confirm ==
  /\ pc = "confirm"
  /\ \E response \in Responses :
       /\ confirm' = IF Accepts(response) THEN "yes" ELSE "no"
       /\ Goto(IF Accepts(response) THEN "empty_tree" ELSE "aborted")
  /\ UNCHANGED <<repo, repo0, dryRun, yes, cleared, totalFixCount, badCommits,
                 commitMap, todo, encoded>>

\* Step 2 of the rewrite: CreateEmptyTree, whatever the mode.
EmptyTree ==
  /\ pc = "empty_tree"
  /\ repo' = CreateEmptyTree(repo)
  /\ Goto("replace")
  /\ UNCHANGED <<repo0, dryRun, yes, cleared, confirm, totalFixCount, badCommits,
                 commitMap, todo, encoded>>

\* Step 3: ReplaceCommit for every bad commit; a dry run only prints them and ends.
Replace ==
  /\ pc = "replace"
  /\ repo' = IF dryRun THEN repo ELSE ReplaceAll(repo, badCommits, Now)
  /\ Goto(IF dryRun THEN "done" ELSE "filter")
  /\ UNCHANGED <<repo0, dryRun, yes, cleared, confirm, totalFixCount, badCommits,
                 commitMap, todo, encoded>>

\* A FilterRepo that moves the references of the directly replaced commits
\* before it walks the history.
FilterStartRepointing ==
  /\ pc = "filter"
  /\ IF DOMAIN getReplaceRefs(repo) = {}
     THEN /\ Goto("failed")
          /\ UNCHANGED <<repo, commitMap, todo>>
     ELSE /\ commitMap' = getReplaceRefs(repo)
          /\ todo' \in getAllCommitsTopological(repo)
          /\ repo' = updateAllReferences(repo, getReplaceRefs(repo))
          /\ Goto("rewrite")
  /\ UNCHANGED <<repo0, dryRun, yes, cleared, confirm, totalFixCount, badCommits, encoded>>

\* FilterRepo up to its loop: the replace references seed the map, the commits
\* come sorted; without replace references it returns an error.
FilterStart ==
  /\ pc = "filter"
  /\ IF DOMAIN getReplaceRefs(repo) = {}
     THEN /\ Goto("failed")
          /\ UNCHANGED <<commitMap, todo>>
     ELSE /\ commitMap' = getReplaceRefs(repo)
          /\ todo' \in getAllCommitsTopological(repo)
          /\ Goto("rewrite")
  /\ UNCHANGED <<repo, repo0, dryRun, yes, cleared, confirm, totalFixCount, badCommits, encoded>>

\* One turn of FilterRepo's loop.
RewriteStep ==
  /\ pc = "rewrite"
  /\ todo # <<>>
  /\ LET oldHash == Head(todo)
         res == rewriteCommit(repo, oldHash, commitMap)
     IN  /\ repo' = res.repo
         /\ encoded' = IF Reencodes(repo, oldHash, commitMap) THEN encoded \cup {oldHash} ELSE encoded
         /\ commitMap' = IF res.hash # oldHash THEN (oldHash :> res.hash) @@ commitMap ELSE commitMap
         /\ todo' = Tail(todo)
  /\ UNCHANGED <<repo0, pc, dryRun, yes, cleared, confirm, totalFixCount, badCommits>>

\* The end of FilterRepo: updateAllReferences.
UpdateRefs ==
  /\ pc = "rewrite"
  /\ todo = <<>>
  /\ repo' = updateAllReferences(repo, commitMap)
  /\ Goto("cleanup")
  /\ UNCHANGED <<repo0, dryRun, yes, cleared, confirm, totalFixCount, badCommits,
                 commitMap, todo, encoded>>

\* rewriteCommit fails to encode or store the new commit: FilterRepo returns
\* the error at once, and the fix command ends with "history rewrite failed".
RewriteFails ==
  /\ pc = "rewrite"
  /\ todo # <<>>
  /\ Reencodes(repo, Head(todo), commitMap)
  /\ Goto("store_failed")
  /\ UNCHANGED <<repo, repo0, dryRun, yes, cleared, confirm, totalFixCount, badCommits,
                 commitMap, todo, encoded>>

\* Storer.SetReference fails on the k-th reference to update: the ones before
\* it are written, FilterRepo returns the error.
UpdateRefsFails ==
  /\ pc = "rewrite"
  /\ todo = <<>>
  /\ \E k \in DOMAIN refsToUpdate(repo, commitMap) :
       repo' = SetRefs(repo, SubSeq(refsToUpdate(repo, commitMap), 1, k - 1), commitMap)
  /\ Goto("update_failed")
  /\ UNCHANGED <<repo0, dryRun, yes, cleared, confirm, totalFixCount, badCommits,
                 commitMap, todo, encoded>>

\* Step 5 and 6: CleanupReplaceRefs, then VerifyRepository and the report.
Cleanup ==
  /\ pc = "cleanup"
  /\ repo' = IF CleanupReplaceRefsFails(repo) THEN repo ELSE CleanupReplaceRefs(repo)
  /\ Goto(IF CleanupReplaceRefsFails(repo) THEN "crashed" ELSE "done")
  /\ UNCHANGED <<repo0, dryRun, yes, cleared, confirm, totalFixCount, badCommits,
                 commitMap, todo, encoded>>

Next ==
  \/ Diagnose
  \/ DryRunAnalyze
  \/ LoggerFails
  \/ BackupOk
  \/ BackupFails
  \/ CleanupPacked
  \/ FixHashPath
  \/ FixRefs
  \/ FixTags
  \/ FixMissing
  \/ FixTrees
  \/ FindBad
  \/ GarbageCollect
  \/ VerifyRefsOnly
  \/ ShowBadCommits
  \/ Confirm
  \/ EmptyTree
  \/ Replace
  \/ FilterStart
  \/ RewriteStep
  \/ RewriteFails
  \/ UpdateRefs
  \/ UpdateRefsFails
  \/ Cleanup

Spec == Init /\ [][Next]_vars

--------------------------------------------------------------------------
(* The planner and the rewrite engine on their own: ReplaceCommit for a    *)
(* list of commits of any history, then FilterRepo.                        *)

\* No commit is its own ancestor.
Acyclic(commits) ==
  \A h \in DOMAIN commits :
     h \notin WalkAll([commits |-> commits], commits[h].parents, {})

\* The parents a commit of the history may have: none, one, or two (a merge).
ParentOptions(h) ==
  LET others == (1..NumCommits) \ {h}
  IN  {<<>>} \cup {<<p>> : p \in others}
             \cup {s \in {<<p, q>> : p \in others, q \in others} : s[1] # s[2]}

Histories ==
  {c \in {[h \in 1..NumCommits |-> Commit(h, GoodTree, ps[h])] :
            ps \in [1..NumCommits -> UNION {ParentOptions(h) : h \in 1..NumCommits}]} :
     /\ \A h \in 1..NumCommits : c[h].parents \in ParentOptions(h)
     /\ Acyclic(c)}

FilterRepos ==
  {[commits |-> c, trees |-> TreeStore(c, <<>>),
    branches |-> RefMap(BranchNames, <<d, m>>), tags |-> RefMap(TagNames, <<v>>),
    replace |-> <<>>,
    head |-> [sym |-> TRUE, target |-> "refs/heads/main", hash |-> ZeroHash],
    packed |-> <<>>] :
     c \in Histories,
     d \in {Absent} \cup 1..NumCommits,
     m \in 1..NumCommits,
     v \in {Absent, 1}}

\* The lists of bad commits handed to the planner: any commits, in any order.
BadCommitLists(r) ==
  UNION {{[i \in DOMAIN p |-> BadCommit(r, p[i])] : p \in Perms(S)} :
           S \in SUBSET (DOMAIN r.commits) \ {{}}}

InitFilter ==
  /\ repo \in FilterRepos
  /\ repo0 = repo
  /\ pc = "replace"
  /\ dryRun = FALSE
  /\ yes = TRUE
  /\ cleared = TRUE
  /\ confirm = "none"
  /\ totalFixCount = 0
  /\ badCommits \in BadCommitLists(repo)
  /\ commitMap = <<>>
  /\ todo = <<>>
  /\ encoded = {}

NextFilter ==
  \/ Replace
  \/ FilterStart
  \/ RewriteStep
  \/ RewriteFails
  \/ UpdateRefs
  \/ UpdateRefsFails

SpecFilter == InitFilter /\ [][NextFilter]_vars

--------------------------------------------------------------------------
(* The rewrite engine on a store whose parent links are not a history: an  *)
(* object read under a hash that is not its own (a hash-path mismatch) can *)
(* close a cycle.                                                          *)

CyclicHistories ==
  {c \in {[h \in 1..NumCommits |-> Commit(h, GoodTree, ps[h])] :
            ps \in [1..NumCommits -> UNION {ParentOptions(h) : h \in 1..NumCommits}]} :
     /\ \A h \in 1..NumCommits : c[h].parents \in ParentOptions(h)
     /\ ~Acyclic(c)}

CyclicRepos ==
  {[commits |-> c, trees |-> TreeStore(c, <<>>),
    branches |-> RefMap(BranchNames, <<Absent, m>>), tags |-> RefMap(TagNames, <<v>>),
    replace |-> <<>>,
    head |-> [sym |-> TRUE, target |-> "refs/heads/main", hash |-> ZeroHash],
    packed |-> <<>>] :
     c \in CyclicHistories,
     m \in 1..NumCommits,
     v \in {Absent, 1}}

InitCyclic ==
  /\ repo \in CyclicRepos
  /\ repo0 = repo
  /\ pc = "replace"
  /\ dryRun = FALSE
  /\ yes = TRUE
  /\ cleared = TRUE
  /\ confirm = "none"
  /\ totalFixCount = 0
  /\ badCommits \in BadCommitLists(repo)
  /\ commitMap = <<>>
  /\ todo = <<>>
  /\ encoded = {}

SpecCyclic == InitCyclic /\ [][NextFilter]_vars

--------------------------------------------------------------------------
(* Properties.                                                             *)

\* The hash a reference resolves to, through its symbolic target; the zero
\* hash when the target is absent.
Resolved(r, ref) ==
  IF ~ref.sym THEN ref.hash
  ELSE IF HasRef(r, ref.target) THEN RefHash(r, ref.target) ELSE ZeroHash

\* Every branch, tag and HEAD resolves to a stored commit.
NoDanglingRefs(r) ==
  \A i \in DOMAIN References(r) :
     References(r)[i].name # ReplaceName =>
        /\ Resolved(r, References(r)[i]) # ZeroHash
        /\ HasCommit(r, Resolved(r, References(r)[i]))

\* The branch and tag names that point at h.
PointingAt(r, h) ==
  {BranchAndTagRefs(r)[i].name : i \in {j \in DOMAIN BranchAndTagRefs(r) : BranchAndTagRefs(r)[j].hash = h}}

\* C1: after a complete non-dry-run fix run, an immediately following scan
\* (RunFsck) of the repository it leaves reports no issue.
C1_RescanFindsNothing == (pc = "done" /\ ~dryRun) => RunFsck(repo) = <<>>

\* C2: once the reference fixes and FilterRepo have completed, every branch,
\* tag and HEAD still present resolves to a hash that is not the zero hash and
\* loads as a commit.
C2_NoDanglingReferences == (pc = "cleanup") => NoDanglingRefs(repo)

\* h is a key of a replace reference or has one among its ancestors.
Affected(r, h) ==
  \/ h \in DOMAIN r.replace
  \/ HasCommit(r, h) /\ WalkAll(r, r.commits[h].parents, {}) \cap DOMAIN r.replace # {}

\* C3: FilterRepo never re-encodes and never maps a commit that is neither a
\* key of a replace reference nor a descendant of one; the commit keeps its
\* hash and content, and the branches and tags pointing at it keep their target.
C3_AncestryPreserved ==
  \A h \in DOMAIN repo.commits :
     ~Affected(repo, h) =>
        /\ h \notin encoded
        /\ h \notin DOMAIN commitMap
        /\ (h \in DOMAIN repo0.commits => repo.commits[h] = repo0.commits[h])
        /\ PointingAt(repo0, h) \subseteq PointingAt(repo, h)

\* C3's case: FilterRepo has finished, it re-encoded some commit, and a branch
\* or tag points at a commit of the walked history that no replacement affects.
C3_Witness ==
  /\ pc = "cleanup"
  /\ encoded # {}
  /\ \E h \in CommitSet(repo0) : ~Affected(repo, h) /\ PointingAt(repo0, h) # {}

\* C4: when A has a replace reference and B, reachable from a branch or tag,
\* has A as its sole parent, FilterRepo maps B to a commit it newly stored
\* whose only parent is the replacement of A.
C4_PropagationCorrect ==
  (pc = "cleanup") =>
     \A a \in DOMAIN repo.replace : \A b \in CommitSet(repo0) \cap DOMAIN repo0.commits :
        repo0.commits[b].parents = <<a>> =>
           /\ b \in DOMAIN commitMap
           /\ commitMap[b] \notin DOMAIN repo0.commits
           /\ HasCommit(repo, commitMap[b])
           /\ repo.commits[commitMap[b]].parents = <<commitMap[a]>>

\* The history is the chain a <- b <- c, one branch points at c, there is no
\* other reference, and only a was handed to the planner.
LinearChain(r, bcs, a, b, c) ==
  /\ DOMAIN r.commits = {a, b, c}
  /\ a # b /\ b # c /\ a # c
  /\ r.commits[a].parents = <<>>
  /\ r.commits[b].parents = <<a>>
  /\ r.commits[c].parents = <<b>>
  /\ DOMAIN r.branches = {"refs/heads/main"}
  /\ r.branches["refs/heads/main"] = c
  /\ DOMAIN r.tags = {}
  /\ Len(bcs) = 1 /\ bcs[1].Hash = a

\* C5: for the chain A <- B <- C with one branch at C and only A replaced,
\* FilterRepo maps B and C to new commits, B' has parent A', C' has parent B',
\* and the branch ends at C', whatever the hashes of A, B and C.
C5_LinearChain ==
  (pc = "cleanup") =>
     \A a, b, c \in DOMAIN repo0.commits :
        LinearChain(repo0, badCommits, a, b, c) =>
           /\ {a, b, c} \subseteq DOMAIN commitMap
           /\ {commitMap[a], commitMap[b], commitMap[c]} \cap {a, b, c} = {}
           /\ repo.commits[commitMap[b]].parents = <<commitMap[a]>>
           /\ repo.commits[commitMap[c]].parents = <<commitMap[b]>>
           /\ repo.branches["refs/heads/main"] = commitMap[c]

\* C6: a --dry-run fix writes no object and creates, changes or removes no
\* reference, HEAD or packed-refs entry: the repository stays as it was found.
C6_DryRunPurity == dryRun => repo = repo0

\* The repository holds a root commit 1 whose tree has three entries, one of
\* them the zero hash.
RootWithCorruptTree(r) ==
  /\ HasCommit(r, 1)
  /\ r.commits[1].parents = <<>>
  /\ r.commits[1].tree = CorruptTree
  /\ r.trees[CorruptTree] = <<BlobA, ZeroHash, BlobB>>

\* C7: for a root commit whose tree has three entries, one of them null, at
\* the end of the fix run every branch or tag that pointed at the root points
\* at a commit without parents whose tree holds exactly the two other entries.
C7_RootTreeRepaired ==
  (pc = "done" /\ ~dryRun /\ RootWithCorruptTree(repo0)) =>
     \A name \in PointingAt(repo0, 1) :
        /\ HasRef(repo, name)
        /\ HasCommit(repo, RefHash(repo, name))
        /\ repo.commits[RefHash(repo, name)].parents = <<>>
        /\ HasTree(repo, repo.commits[RefHash(repo, name)].tree)
        /\ repo.trees[repo.commits[RefHash(repo, name)].tree] = <<BlobA, BlobB>>

\* The only branch points at the zero hash and there is no other history.
NullReferenceOnly(r) ==
  /\ DOMAIN r.commits = {}
  /\ DOMAIN r.branches = {"refs/heads/main"}
  /\ r.branches["refs/heads/main"] = ZeroHash
  /\ DOMAIN r.tags = {}
  /\ r.packed = <<>>
  /\ r.head.sym

\* C8: when the only branch points at the zero hash and there is no other
\* history, the fix neither deletes the branch nor counts it as fixed.
C8_NullBranchKept ==
  (NullReferenceOnly(repo0) /\ ~dryRun) =>
     /\ "refs/heads/main" \in DOMAIN repo.branches
     /\ totalFixCount = 0

\* C9: in a non-dry-run fix nothing modifies the repository before the backup
\* has succeeded or the operator has accepted to go on without one, and a run
\* the operator declines ends with the repository unchanged.
C9_BackupFirst ==
  /\ (~dryRun /\ ~cleared) => repo = repo0
  /\ (pc = "cancelled") => repo = repo0

\* C9's case: the run has modified the repository, after the backup.
C9_Witness == ~dryRun /\ cleared /\ repo # repo0

\* The references of r: branches, tags, HEAD and packed-refs.
RefsOf(r) == <<r.branches, r.tags, r.head, r.packed>>

\* C10: without --yes and without --dry-run no reference is rewritten or
\* deleted before the operator has answered the confirmation prompt with yes,
\* and any other answer leaves the repository as it was before the run.
C10_ConfirmFirst ==
  /\ (~dryRun /\ ~yes /\ confirm # "yes") => RefsOf(repo) = RefsOf(repo0)
  /\ (confirm = "no") => repo = repo0

\* C11: when FilterRepo has updated the references, CleanupReplaceRefs does not
\* fail whatever reference names the repository holds, the repository it
\* leaves has no reference under refs/replace/, and its branches, tags, HEAD
\* and packed-refs are those it found.
C11_OverlayDiscarded ==
  (pc = "cleanup") =>
     /\ ~CleanupReplaceRefsFails(repo)
     /\ DOMAIN CleanupReplaceRefs(repo).replace = {}
     /\ RefsOf(CleanupReplaceRefs(repo)) = RefsOf(repo)

\* C12: when the first scan of the fix command finds no issue, the run ends
\* there: it never reaches the logger or the backup and the repository stays
\* as it was found.
C12_HealthyLeftAlone ==
  (RunFsck(repo0) = <<>>) =>
     /\ pc \in {"start", "healthy"}
     /\ ~cleared
     /\ repo = repo0

\* C12's case: the scan found nothing and the run has ended.
C12_Witness == pc = "healthy" /\ RunFsck(repo0) = <<>> /\ DOMAIN repo0.commits # {}

\* C13: on the repository state each fix starts from, the number of fixes the
\* dry-run mode reports equals the number a live run applies and reports: for
\* the null references and packed-refs entries (FixNullSHAReferences), the
\* null tags (FixNullSHATags) and the references to missing commits
\* (FixMissingCommits).
C13_PreviewMatchesLive ==
  /\ (pc = "fix_refs") =>
        FixNullSHAReferences(repo, TRUE).count = FixNullSHAReferences(repo, FALSE).count
  /\ (pc = "fix_tags") =>
        FixNullSHATags(repo, TRUE).count = FixNullSHATags(repo, FALSE).count
  /\ (pc = "fix_missing") =>
        FixMissingCommits(repo, TRUE).count = FixMissingCommits(repo, FALSE).count

\* In the sequence s no commit stands before one of its parents.
ParentsFirst(r, s) ==
  \A i, j \in DOMAIN s :
     (i < j /\ HasCommit(r, s[i])) => s[j] \notin Range(r.commits[s[i]].parents)

\* C14: the sequence getAllCommitsTopological returns places every commit
\* after all of its parents that are in it, so whenever FilterRepo's loop takes
\* a commit none of its parents is still waiting to be processed.
C14_ParentsBeforeChildren == (pc = "rewrite") => ParentsFirst(repo0, todo)

\* C15: the step of FilterRepo that follows the walk leaves every branch and
\* tag whose target is a key of the commit map at the mapped hash, every other
\* branch and tag at its target, and HEAD, the replace references and
\* packed-refs as they were.
C15_ReferenceRepointing ==
  [][(pc = "rewrite" /\ pc' = "cleanup") =>
       /\ \A i \in DOMAIN BranchAndTagRefs(repo) :
            LET ref == BranchAndTagRefs(repo)[i]
            IN  /\ HasRef(repo', ref.name)
                /\ RefHash(repo', ref.name) =
                      IF ref.hash \in DOMAIN commitMap THEN commitMap[ref.hash] ELSE ref.hash
       /\ Len(BranchAndTagRefs(repo')) = Len(BranchAndTagRefs(repo))
       /\ repo'.head = repo.head
       /\ repo'.replace = repo.replace
       /\ repo'.packed = repo.packed]_vars

\* C15's case: FilterRepo has moved a branch to its mapped hash while another
\* branch or tag, whose target is no key of the map, stayed.
C15_Witness ==
  /\ pc = "cleanup"
  /\ \E n \in DOMAIN repo0.branches : repo.branches[n] # repo0.branches[n]
  /\ \E i \in DOMAIN BranchAndTagRefs(repo0) :
        BranchAndTagRefs(repo0)[i].hash \notin DOMAIN commitMap
  /\ \E n \in DOMAIN repo0.tags : repo0.tags[n] \in DOMAIN commitMap

\* The branches and tags of r.
BranchesAndTags(r) == <<r.branches, r.tags>>

\* C16: within FilterRepo no branch or tag changes while commits are still to
\* be rewritten: a run interrupted before the reference updates has all its
\* branches and tags at their targets of before the rewrite, and once one has
\* changed the walk is over and every commit the walk re-encoded is stored.
C16_ObjectsBeforeReferences ==
  /\ (pc \in {"replace", "filter"} \/ (pc = "rewrite" /\ todo # <<>>)) =>
        BranchesAndTags(repo) = BranchesAndTags(repo0)
  /\ (BranchesAndTags(repo) # BranchesAndTags(repo0)) =>
        /\ todo = <<>>
        /\ \A h \in encoded : h \in DOMAIN commitMap /\ HasCommit(repo, commitMap[h])

\* C16's case: the walk re-encoded commits and the references were moved after it.
C16_Witness ==
  /\ pc = "cleanup"
  /\ encoded # {}
  /\ BranchesAndTags(repo) # BranchesAndTags(repo0)

\* C17: when storing a rewritten commit fails FilterRepo ends with an error and
\* has changed no branch and no tag; and at every point of the rewrite each
\* branch and tag is either at its target of before the rewrite or at the hash
\* the commit map gives for that target.
C17_NoPartialReferenceUpdate ==
  /\ (pc = "store_failed") => BranchesAndTags(repo) = BranchesAndTags(repo0)
  /\ \A i \in DOMAIN BranchAndTagRefs(repo0) :
        LET ref == BranchAndTagRefs(repo0)[i]
        IN  /\ HasRef(repo, ref.name)
            /\ \/ RefHash(repo, ref.name) = ref.hash
               \/ /\ ref.hash \in DOMAIN commitMap
                  /\ RefHash(repo, ref.name) = commitMap[ref.hash]

\* C17's case: the store failed after the walk had already stored a rewritten commit.
C17_Witness == pc = "store_failed" /\ encoded # {}

\* C18: when rewriteCommit rewrites a commit, the commit it stores has as many
\* parents as the original, in the same order, each parent that is a key of
\* the commit map replaced by its mapped hash and each other parent kept, and
\* the original's tree, message, author and committer.
C18_MergeParents ==
  [][(pc = "rewrite" /\ todo # <<>> /\ todo' = Tail(todo)
        /\ Reencodes(repo, Head(todo), commitMap)) =>
       LET old == repo.commits[Head(todo)]
           new == repo'.commits[rewriteCommit(repo, Head(todo), commitMap).hash]
       IN  /\ HasCommit(repo', rewriteCommit(repo, Head(todo), commitMap).hash)
           /\ Len(new.parents) = Len(old.parents)
           /\ \A i \in DOMAIN old.parents :
                new.parents[i] = IF old.parents[i] \in DOMAIN commitMap
                                 THEN commitMap[old.parents[i]] ELSE old.parents[i]
           /\ new.tree = old.tree
           /\ new.meta = old.meta]_vars

\* C18's case: the walk has re-encoded a merge commit one of whose two parents
\* was a key of the commit map while the other was not.
C18_Witness ==
  \E h \in encoded :
     /\ Len(repo0.commits[h].parents) = 2
     /\ h \in DOMAIN commitMap
     /\ \E i, j \in 1..2 :
          /\ repo.commits[commitMap[h]].parents[i] # repo0.commits[h].parents[i]
          /\ repo.commits[commitMap[h]].parents[j] = repo0.commits[h].parents[j]

\* A commit the walk from the branches and tags reaches is its own ancestor.
CycleReachable(r) ==
  \E h \in CommitSet(r) \cap DOMAIN r.commits : h \in WalkAll(r, r.commits[h].parents, {})

\* C19: when the parent links reachable from a branch or tag contain a cycle,
\* FilterRepo does not complete: it never gets to the end of its walk and to
\* the reference updates as it does on an acyclic history.
C19_CycleAborts == (pc = "cleanup") => ~CycleReachable(repo0)

\* The tree of commit h resolves and holds no zero-hash entry.
HealthyTree(r, h) ==
  /\ HasCommit(r, h)
  /\ HasTree(r, r.commits[h].tree)
  /\ ZeroHash \notin Range(r.trees[r.commits[h].tree])

\* C20: once ReplaceCommit has run for the flagged commits, the replacement of
\* every flagged commit whose own tree is healthy has the tree hash of the
\* original commit.
C20_HealthyTreeKept ==
  (pc \in {"filter", "rewrite", "cleanup"}) =>
     \A i \in DOMAIN badCommits :
        HealthyTree(repo0, badCommits[i].Hash) =>
           /\ badCommits[i].Hash \in DOMAIN repo.replace
           /\ HasCommit(repo, repo.replace[badCommits[i].Hash])
           /\ repo.commits[repo.replace[badCommits[i].Hash]].tree
                 = repo0.commits[badCommits[i].Hash].tree

\* The parents of commit h that are not the zero hash and load as commits, in order.
ResolvableParents(r, h) ==
  SelectSeq(r.commits[h].parents, LAMBDA p : p # ZeroHash /\ HasCommit(r, p))

\* C21: once ReplaceCommit has run for the flagged commits, the parents of
\* every replacement are exactly the parents of the original commit that are
\* not the zero hash and load as commits, in their original order.
C21_ReplacementParents ==
  (pc \in {"filter", "rewrite", "cleanup"}) =>
     \A i \in DOMAIN badCommits :
        LET h == badCommits[i].Hash
        IN  /\ h \in DOMAIN repo.replace
            /\ HasCommit(repo, repo.replace[h])
            /\ repo.commits[repo.replace[h]].parents = ResolvableParents(repo0, h)

\* The entries of a tree that are not the zero hash, in their order.
NonNullEntries(entries) ==
  LET keep == {i \in DOMAIN entries : entries[i] # ZeroHash}
      idx == SortedSeq(keep)
  IN  [k \in 1..Len(idx) |-> entries[idx[k]]]

\* The tree that replaces tree t of the repository the run found, as the
\* replacement commits of the run show it: the tree of the replacement of a
\* commit that had t.
ReplacementTrees(t) ==
  {repo.commits[repo.replace[c]].tree :
     c \in {d \in DOMAIN repo.replace \cap DOMAIN repo0.commits : repo0.commits[d].tree = t}}

IssuesOfType(r, type) == {i \in DOMAIN RunFsck(r) : RunFsck(r)[i].type = type}

\* The commits the scan examines: those a reference points at directly.
ScannedCommits(r) ==
  {References(r)[i].hash : i \in {j \in DOMAIN References(r) :
      ~References(r)[j].sym /\ HasCommit(r, References(r)[j].hash)}}

\* C23: the first scan reports, for every stored commit reachable by parent
\* links from a reference whose tree does not resolve, a missing-tree issue
\* with the tree as subject and the commit as owner.
C23_ScanCoversReachable ==
  (pc = "start") =>
     \A h \in Reachable(repo) \cap DOMAIN repo.commits :
        ~HasTree(repo, repo.commits[h].tree) =>
           \E i \in IssuesOfType(repo, "missing-tree") :
              /\ RunFsck(repo)[i].hash = repo.commits[h].tree
              /\ RunFsck(repo)[i].commit = h

\* C24: the first scan reports at most one issue of a kind for a commit,
\* however many references lead to the commit.
C24_EachCommitCheckedOnce ==
  (pc = "start") =>
     \A i, j \in DOMAIN RunFsck(repo) :
        (/\ RunFsck(repo)[i].type \in {"missing-tree", "broken-parent"}
         /\ RunFsck(repo)[i].type = RunFsck(repo)[j].type
         /\ IssueCommit(RunFsck(repo)[i]) = IssueCommit(RunFsck(repo)[j])) => i = j

\* C25: the first scan reports a broken-parent issue naming the commit for
\* every commit it examines that has a parent which is the zero hash or does
\* not load as a commit.
C25_BrokenParentDetected ==
  (pc = "start") =>
     \A h \in ScannedCommits(repo) :
        (\E p \in Range(repo.commits[h].parents) : p = ZeroHash \/ ~HasCommit(repo, p)) =>
           \E i \in IssuesOfType(repo, "broken-parent") : RunFsck(repo)[i].hash = h

\* C26: when FilterRepo has completed, no commit that is a key of the commit
\* map is reachable by parent links from a branch or tag.
C26_OldCommitsUnreachable ==
  (pc = "cleanup") => CommitSet(repo) \cap DOMAIN commitMap = {}

\* The references of r other than the replace refs, each with what it points
\* at: a hash, or for a symbolic reference the name of its target.
NamedRefs(r) ==
  {[name |-> References(r)[i].name, sym |-> References(r)[i].sym,
    hash |-> References(r)[i].hash, target |-> References(r)[i].target] :
     i \in {j \in DOMAIN References(r) : References(r)[j].name # ReplaceName}}
\* A reference that resolves, directly or through its symbolic target, to a
\* commit the store holds.
ResolvesToCommit(r, ref) ==
  IF ref.sym THEN HasRef(r, ref.target) /\ HasCommit(r, RefHash(r, ref.target))
  ELSE HasCommit(r, ref.hash)

\* C27: after FixNullSHAReferences, FixNullSHATags and FixMissingCommits,
\* every reference that resolved to a loadable commit before them, a symbolic
\* HEAD on a healthy branch included, has the target it had before.
C27_HealthyReferencesUntouched ==
  (pc = "fix_trees") =>
     \A ref \in NamedRefs(repo0) : ResolvesToCommit(repo0, ref) => ref \in NamedRefs(repo)

\* C28: BadCommit.String returns normally for every bad commit FindBadCommits
\* hands to the listing, a commit whose first parent is the zero hash included.
C28_ListingNeverFails ==
  (pc = "show_bad") => \A i \in DOMAIN badCommits : ~BadCommitStringFails(badCommits[i])

\* What a plan maps each replaced commit to: the content of its replacement,
\* which is what its hash names.
PlanOf(r) == [h \in DOMAIN r.replace |-> r.commits[r.replace[h]]]
\* The orders in which the loop may be handed the same bad commits.
Orders(bcs) == {[i \in DOMAIN p |-> bcs[p[i]]] : p \in Perms(DOMAIN bcs)}

\* C29: ReplaceCommit over the bad commits in any order gives the same
\* refs/replace mappings to the same new commits, and applying it again to a
\* bad commit already planned changes neither the mappings nor the store.
C29_PlanningOrderIndependent ==
  (pc = "filter") =>
     /\ \A bcs \in Orders(badCommits) : PlanOf(ReplaceAll(repo0, bcs, Now)) = PlanOf(repo)
     /\ \A i \in DOMAIN badCommits :
           /\ ReplaceCommit(repo, badCommits[i], Now).replace = repo.replace
           /\ ReplaceCommit(repo, badCommits[i], Now).commits = repo.commits
\* A child was planned after its parent, which is bad too.
C29_Witness ==
  /\ pc = "filter"
  /\ \E i, j \in DOMAIN badCommits : i < j /\ badCommits[j].ParentHash = badCommits[i].Hash
  /\ DOMAIN repo.replace = {badCommits[i].Hash : i \in DOMAIN badCommits}

\* C30: DryRunDetails.AnalyzeAndPopulate returns normally on every repository
\* the dry run hands it, one in which no branch points at a loadable commit
\* included.
C30_DryRunAnalysisNeverFails ==
  (pc = "analyze") => ~AnalyzeFails(repo)

====
